---- MODULE Spec2Model ----
(***************************************************************************)
(* mdbook-generate-summary: src/main.rs.                                   *)
(*                                                                         *)
(* The program scans a documentation tree and writes SUMMARY.md.  Strings  *)
(* are sequences of one-character strings, paths are sequences of          *)
(* components (std::path::PathBuf compares and strips component-wise), a   *)
(* document is a sequence of lines or is unreadable.                       *)
(***************************************************************************)
EXTENDS Integers, Sequences, FiniteSets, TLC

VARIABLES
    files,            \* the file system: full path -> document
    dirs,             \* the file system: the directories (full paths)
    base_path,        \* Cli.base_path
    trim_str,         \* Cli.trim_str
    title_from_name,  \* Cli.title_from_name
    create_readmes,   \* Cli.create_readmes
    pc,               \* position of main (or of the function under test)
    run,              \* which of two successive runs of main is in progress
    todo,             \* directories the glob of main has still to yield
    sum_entries,      \* the Vec<SummaryEntry> main collects
    outputs,          \* SUMMARY.md as each completed run left it
    arg,              \* the path argument of the function under test
    ret               \* what the function under test returned

vars == <<files, dirs, base_path, trim_str, title_from_name, create_readmes,
          pc, run, todo, sum_entries, outputs, arg, ret>>

-----------------------------------------------------------------------------
(* Bounds of the model.                                                    *)

\* longest document (in lines) given to find_content on its own
MaxLines == 2
\* longest path (in components) given to relative_path on its own
MaxPathLen == 3
\* most sub-directories in a tree given to main
MaxDirs == 2
\* most documents in a tree given to main
MaxDocs == 2

-----------------------------------------------------------------------------
(* Strings.                                                                *)

Ascii ==
    <<" ","!","#","$","%","&","'","(",")","*","+",",","-",".","/",
      "0","1","2","3","4","5","6","7","8","9",":",";","<","=",">","?",
      "@","A","B","C","D","E","F","G","H","I","J","K","L","M","N","O",
      "P","Q","R","S","T","U","V","W","X","Y","Z","[","]","^","_",
      "a","b","c","d","e","f","g","h","i","j","k","l","m","n","o",
      "p","q","r","s","t","u","v","w","x","y","z","{","|","}","~">>

\* the rank of a character in byte order (printable ASCII, in order; the
\* double quote, the backslash and the backquote are left out)
Byte(c) == CHOOSE i \in 1..Len(Ascii) : Ascii[i] = c

\* char::is_whitespace, on the characters the model uses
IsWhitespace(c) == c \in {" ", "\t"}

Drop(s, n) == SubSeq(s, n + 1, Len(s))

RECURSIVE trim_start(_)
trim_start(s) ==
    IF s # <<>> /\ IsWhitespace(Head(s)) THEN trim_start(Tail(s)) ELSE s

RECURSIVE trim_end(_)
trim_end(s) ==
    IF s # <<>> /\ IsWhitespace(s[Len(s)])
    THEN trim_end(SubSeq(s, 1, Len(s) - 1))
    ELSE s

\* str::trim
trim(s) == trim_end(trim_start(s))

\* str::starts_with
starts_with(s, pat) == Len(pat) <= Len(s) /\ SubSeq(s, 1, Len(pat)) = pat

\* str::ends_with
ends_with(s, pat) ==
    Len(pat) <= Len(s) /\ SubSeq(s, Len(s) - Len(pat) + 1, Len(s)) = pat

\* str::trim_start_matches: removes the pattern from the start repeatedly,
\* as long as the string still starts with it
RECURSIVE trim_start_matches(_, _)
trim_start_matches(s, pat) ==
    IF pat # <<>> /\ starts_with(s, pat)
    THEN trim_start_matches(Drop(s, Len(pat)), pat)
    ELSE s

\* str::split on a one-character separator: the segments, in order
RECURSIVE split(_, _)
split(s, sep) ==
    IF \E i \in 1..Len(s) : s[i] = sep
    THEN LET i == CHOOSE k \in 1..Len(s) :
                      s[k] = sep /\ \A j \in 1..(k - 1) : s[j] # sep
         IN  <<SubSeq(s, 1, i - 1)>> \o split(Drop(s, i), sep)
    ELSE <<s>>

\* byte-wise lexicographic comparison of two strings (Ord for str)
RECURSIVE StrLeq(_, _)
StrLeq(a, b) ==
    IF a = <<>> THEN TRUE
    ELSE IF b = <<>> THEN FALSE
    ELSE IF Head(a) = Head(b) THEN StrLeq(Tail(a), Tail(b))
    ELSE Byte(Head(a)) < Byte(Head(b))

-----------------------------------------------------------------------------
(* Paths.                                                                  *)

README == <<"R","E","A","D","M","E">>
README_md == <<"R","E","A","D","M","E",".","m","d">>
SUMMARY_md == <<"S","U","M","M","A","R","Y",".","m","d">>
page_md == <<"p","a","g","e",".","m","d">>
guide == <<"g","u","i","d","e">>
src == <<"s","r","c">>
dot_md == <<".","m","d">>

\* Path::to_str: the components joined by a slash
RECURSIVE to_str(_)
to_str(path) ==
    IF path = <<>> THEN <<>>
    ELSE IF Len(path) = 1 THEN path[1]
    ELSE path[1] \o <<"/">> \o to_str(Tail(path))

\* Path::file_stem: the file name without its extension; the whole name
\* when it holds no dot, or only a leading one
file_stem(path) ==
    LET name == path[Len(path)]
        dots == {i \in 2..Len(name) : name[i] = "."}
    IN  IF dots = {} THEN name
        ELSE SubSeq(name, 1, (CHOOSE i \in dots : \A j \in dots : j <= i) - 1)

\* Path::strip_prefix succeeds when base is a component-wise prefix
IsPrefix(base, path) ==
    Len(base) <= Len(path) /\ SubSeq(path, 1, Len(base)) = base

\* Path::file_name
FileName(p) == p[Len(p)]

\* Path::parent of a path with a file name
Parent(path) == SubSeq(path, 1, Len(path) - 1)

\* Ord for Path: component by component, each component byte-wise
RECURSIVE PathLeq(_, _)
PathLeq(p, q) ==
    IF p = <<>> THEN TRUE
    ELSE IF q = <<>> THEN FALSE
    ELSE IF Head(p) = Head(q) THEN PathLeq(Tail(p), Tail(q))
    ELSE StrLeq(Head(p), Head(q))

-----------------------------------------------------------------------------
(* Results of the functions: Option<T>, or the panic of an expect().       *)

None == [tag |-> "None"]
Some(v) == [tag |-> "Some", value |-> v]
Abort == [tag |-> "Abort"]

SummaryEntry(path, title) == [path |-> path, title |-> title]

Unreadable == [readable |-> FALSE, lines |-> <<>>]
Document(lines) == [readable |-> TRUE, lines |-> lines]

\* relative_path without the check of strip_prefix: the first components are
\* dropped whatever they are
relative_path_Unchecked(path, base) == Some(Drop(path, Len(base)))

\* relative_path: path.strip_prefix(base_path).expect(...)
relative_path(path, base) ==
    IF IsPrefix(base, path) THEN Some(Drop(path, Len(base))) ELSE Abort

\* the title from the file name without the README case
TitleFromName_StemOnly(path) == Some(file_stem(path))

\* the title find_content takes from the file name (title_from_name)
TitleFromName(path) ==
    LET t == file_stem(path)
        spl == split(to_str(path), "/")
    IN  IF t = README
        THEN IF Len(spl) >= 2 THEN Some(spl[Len(spl) - 1]) ELSE Abort
        ELSE Some(t)

\* the titles find_content's filter_map yields, one per line whose trimmed
\* form starts with trim_str, in line order
RECURSIVE TitleLines(_, _)
TitleLines(lines, ts) ==
    IF lines = <<>> THEN <<>>
    ELSE LET trimmed == trim(Head(lines))
         IN  (IF starts_with(trimmed, ts)
              THEN <<trim_start_matches(trimmed, ts)>>
              ELSE <<>>) \o TitleLines(Tail(lines), ts)

\* find_content with File::open(path).unwrap(): an unreadable document panics
find_content_Unwrap(path, base, ts, tfn, fsys) ==
    IF ~tfn /\ ~fsys[path].readable THEN Abort
    ELSE IF tfn
    THEN Some(SummaryEntry(Drop(path, Len(base)), TitleFromName(path).value))
    ELSE IF TitleLines(fsys[path].lines, ts) = <<>> THEN None
    ELSE Some(SummaryEntry(Drop(path, Len(base)), Head(TitleLines(fsys[path].lines, ts))))

\* find_content
find_content(path, base, ts, tfn, fsys) ==
    IF tfn
    THEN LET actual_title == TitleFromName(path)
             rel == relative_path(path, base)
         IN  IF actual_title = Abort \/ rel = Abort THEN Abort
             ELSE Some(SummaryEntry(rel.value, actual_title.value))
    ELSE IF ~fsys[path].readable THEN None
    ELSE LET titles == TitleLines(fsys[path].lines, ts)
         IN  IF titles = <<>> THEN None
             ELSE IF relative_path(path, base) = Abort THEN Abort
             ELSE Some(SummaryEntry(relative_path(path, base).value, Head(titles)))

-----------------------------------------------------------------------------
(* find_content on its own: one document, every marker, both title modes.  *)

\* the lines a document under test is made of
LineSet ==
    { <<>>,
      <<"#"," ","A">>,
      <<" "," ","#"," ","B"," ">>,
      <<"#"," ","#"," ","A">>,
      <<"#">>,
      <<"A">>,
      <<"#","A">> }

Markers == { <<"#"," ">>, <<"#">> }

RECURSIVE SeqsUpTo(_, _)
SeqsUpTo(S, n) ==
    IF n = 0 THEN { <<>> }
    ELSE LET shorter == SeqsUpTo(S, n - 1)
         IN  shorter \cup { Append(s, x) : s \in shorter, x \in S }

FindDocs == { Document(l) : l \in SeqsUpTo(LineSet, MaxLines) } \cup { Unreadable }

FindPaths ==
    { <<src, README_md>>, <<src, page_md>>, <<src, guide, README_md>>,
      <<src, guide, page_md>>, <<src, README, README_md>> }

Idle ==
    /\ dirs = {}
    /\ create_readmes = FALSE
    /\ run = "none"
    /\ todo = {}
    /\ sum_entries = <<>>
    /\ outputs = <<>>

InitFind ==
    /\ Idle
    /\ base_path = <<src>>
    /\ arg \in FindPaths
    /\ \E d \in FindDocs : files = (arg :> d)
    /\ trim_str \in Markers
    /\ title_from_name \in BOOLEAN
    /\ pc = "call"
    /\ ret = None

CallFindContent ==
    /\ pc = "call"
    /\ ret' = find_content(arg, base_path, trim_str, title_from_name, files)
    /\ pc' = "returned"
    /\ UNCHANGED <<files, dirs, base_path, trim_str, title_from_name,
                   create_readmes, run, todo, sum_entries, outputs, arg>>

NextFind == CallFindContent

SpecFind == InitFind /\ [][NextFind]_vars

\* C3: every entry find_content constructs has a non-empty title, for every
\* marker, document and title mode.
C3_NonEmptyTitle ==
    (pc = "returned" /\ ret.tag = "Some") => ret.value.title # <<>>

\* the lines of a document whose trimmed form is the marker followed by a
\* non-empty suffix
MarkedLines(lines, ts) ==
    { i \in 1..Len(lines) :
        \E suffix \in { Drop(trim(lines[i]), Len(ts)) } :
            suffix # <<>> /\ trim(lines[i]) = ts \o suffix }

\* C4: in content-derived mode, a readable document with a line whose trimmed
\* form is the marker plus a non-empty suffix yields an entry titled with the
\* first such line, the marker removed once from its start.
C4_FirstMarkedLineOnce ==
    (/\ pc = "returned"
     /\ ~title_from_name
     /\ files[arg].readable
     /\ MarkedLines(files[arg].lines, trim_str) # {})
    => LET marked == MarkedLines(files[arg].lines, trim_str)
           first == CHOOSE i \in marked : \A j \in marked : i <= j
       IN  /\ ret.tag = "Some"
           /\ trim_str \o ret.value.title = trim(files[arg].lines[first])

\* the title title_from_name gives a document: its file name without ".md",
\* or the name of its parent directory when that leaves "README"
NameTitleOK(path, title) ==
    IF FileName(path) = README \o dot_md
    THEN title = path[Len(path) - 1]
    ELSE title \o dot_md = FileName(path)

\* C9 (as stated): with title_from_name, find_content returns an entry for
\* every document under the root, readable or not, titled with the file stem,
\* or with the parent directory's name and never "README" when the stem is
\* "README".
C9_NeverLiteralReadme ==
    (pc = "returned" /\ title_from_name)
    => /\ ret.tag = "Some"
       /\ NameTitleOK(arg, ret.value.title)
       /\ (FileName(arg) = README \o dot_md => ret.value.title # README)

\* C9 (amended): with title_from_name, find_content returns an entry for every
\* document under the root, readable or not; its path is the document's path
\* below the root and its title is the file stem, or, when the stem is
\* "README", the name of the parent directory (whatever that name is).
C9_TitleFromName ==
    (pc = "returned" /\ title_from_name)
    => /\ ret.tag = "Some"
       /\ base_path \o ret.value.path = arg
       /\ NameTitleOK(arg, ret.value.title)

\* an unreadable README.md of guide/ was titled "guide"
C9_Witness ==
    /\ pc = "returned"
    /\ title_from_name
    /\ ~files[arg].readable
    /\ arg = <<src, guide, README_md>>
    /\ ret = Some(SummaryEntry(<<guide, README_md>>, guide))

-----------------------------------------------------------------------------
(* relative_path on its own: every path against every base.                *)

Components == { src, guide, README_md }

RelPaths == SeqsUpTo(Components, MaxPathLen)

InitRel ==
    /\ Idle
    /\ files = <<>>
    /\ trim_str = <<"#"," ">>
    /\ title_from_name = FALSE
    /\ arg \in RelPaths
    /\ base_path \in RelPaths
    /\ pc = "call"
    /\ ret = None

CallRelativePath ==
    /\ pc = "call"
    /\ ret' = relative_path(arg, base_path)
    /\ pc' = "returned"
    /\ UNCHANGED <<files, dirs, base_path, trim_str, title_from_name,
                   create_readmes, run, todo, sum_entries, outputs, arg>>

NextRel == CallRelativePath

SpecRel == InitRel /\ [][NextRel]_vars

\* base is the beginning of path, component by component
BeginsWith(path, base) ==
    \E rest \in { SubSeq(path, n + 1, Len(path)) : n \in 0..Len(path) } :
        base \o rest = path

\* C8 (as stated): relative_path aborts when base is not a component-wise
\* prefix of the path and otherwise returns the path with the base removed;
\* the returned path never begins with the (non-empty) root prefix.
C8_NeverBeginsWithRoot ==
    pc = "returned"
    => /\ (ret = Abort <=> ~BeginsWith(arg, base_path))
       /\ (ret # Abort => /\ ret.tag = "Some"
                          /\ base_path \o ret.value = arg
                          /\ (base_path # <<>> => ~BeginsWith(ret.value, base_path)))

\* C8 (amended): relative_path aborts when base is not a component-wise prefix
\* of the path and otherwise returns the path with exactly the base prefix
\* removed, once (base followed by the result is the path).
C8_StripsBaseOnce ==
    pc = "returned"
    => /\ (ret = Abort <=> ~BeginsWith(arg, base_path))
       /\ (ret # Abort => ret.tag = "Some" /\ base_path \o ret.value = arg)

\* relative_path was given a base that is not a prefix of the path, and aborted
C8_Witness ==
    /\ pc = "returned"
    /\ base_path = <<src, guide>>
    /\ arg = <<src, README_md>>
    /\ ret = Abort

-----------------------------------------------------------------------------
(* The glob crate, as main and handle_dir use it.  A pattern matches paths *)
(* of the file system; the order in which the matches are enumerated is    *)
(* left open.                                                              *)

\* glob(path + "/*.md"): the documents directly inside path
GlobMd(path, fsys) ==
    { p \in DOMAIN fsys : Parent(p) = path /\ ends_with(FileName(p), dot_md) }

\* glob(path + "/README.md")
GlobReadme(path, fsys) == { p \in DOMAIN fsys : p = Append(path, README_md) }

\* glob(base_path + "/**/*.md"): the documents at any depth under base_path
GlobAllMd(base, fsys) ==
    { p \in DOMAIN fsys :
        IsPrefix(base, Parent(p)) /\ ends_with(FileName(p), dot_md) }

\* the directory glob if it yielded base_path too
GlobDirs_WithBase(base, ds) == { d \in ds : IsPrefix(base, d) }

\* glob(base_path + "/**/"): the literal part of the pattern, base_path, is
\* where the walk starts; the recursive wildcard is matched against the
\* entries read from it, and every directory among them is yielded and
\* descended into.  The matches are the directories below base_path, at any
\* depth; base_path itself is not among them (which is why main seeds the
\* entry of the root README.md itself).
GlobDirs(base, ds) == { d \in ds : IsPrefix(base, d) /\ d # base }

\* the orders in which a set of matches can be enumerated
RECURSIVE Enumerations(_)
Enumerations(S) ==
    IF S = {} THEN { <<>> }
    ELSE UNION { { <<x>> \o e : e \in Enumerations(S \ {x}) } : x \in S }

-----------------------------------------------------------------------------
(* handle_dir.                                                             *)

\* the results of find_content over an enumeration of documents
RECURSIVE FindAll(_, _, _, _, _)
FindAll(paths, base, ts, tfn, fsys) ==
    IF paths = <<>> THEN <<>>
    ELSE <<find_content(Head(paths), base, ts, tfn, fsys)>>
             \o FindAll(Tail(paths), base, ts, tfn, fsys)

\* filter_map: the entries of the results that are Some, in order
RECURSIVE FilterSome(_)
FilterSome(results) ==
    IF results = <<>> THEN <<>>
    ELSE (IF Head(results).tag = "Some" THEN <<Head(results).value>> ELSE <<>>)
             \o FilterSome(Tail(results))

Aborts(results) == \E i \in 1..Len(results) : results[i] = Abort

\* handle_dir, first half: the entries of the documents of the directory
HandleDirFound(path, base, ts, tfn, fsys, order) ==
    FilterSome(FindAll(order, base, ts, tfn, fsys))

\* the second half of handle_dir without the test for README.md
HandleDirSynth_Always(path, base, fsys) ==
    LET rel == relative_path(path, base).value
        segs == split(to_str(rel), "/")
    IN  <<SummaryEntry(Append(rel, README_md), segs[Len(segs)])>>

\* handle_dir, second half: the entry pushed for a missing README.md
HandleDirSynth(path, base, fsys) ==
    IF Cardinality(GlobReadme(path, fsys)) = 0
    THEN LET rel == relative_path(path, base).value
             segs == split(to_str(rel), "/")
         IN  <<SummaryEntry(Append(rel, README_md), segs[Len(segs)])>>
    ELSE <<>>

\* handle_dir: sum_entries after the call, or the panic of relative_path
handle_dir(path, base, ts, tfn, entries, fsys, order) ==
    IF \/ Aborts(FindAll(order, base, ts, tfn, fsys))
       \/ (GlobReadme(path, fsys) = {} /\ relative_path(path, base) = Abort)
    THEN Abort
    ELSE Some(entries \o HandleDirFound(path, base, ts, tfn, fsys, order)
                      \o HandleDirSynth(path, base, fsys))

-----------------------------------------------------------------------------
(* SummaryEntry (mod summary_entry): its order and its rendering.          *)

\* Ord for SummaryEntry: by path, then by title
EntryLeq(a, b) ==
    IF a.path = b.path THEN StrLeq(a.title, b.title) ELSE PathLeq(a.path, b.path)

RECURSIVE Indent(_)
Indent(depth) ==
    IF depth = 0 THEN <<>> ELSE <<" "," "," "," ">> \o Indent(depth - 1)

\* SummaryEntry::summary_line
summary_line(e) ==
    Indent(Len(e.path) - 1) \o <<" ","-"," ","[">> \o e.title
        \o <<"]","(">> \o to_str(e.path) \o <<")">>

\* Itertools::sorted: a stable sort by Ord
RECURSIVE Insert(_, _)
Insert(e, sorted) ==
    IF sorted = <<>> THEN <<e>>
    ELSE IF EntryLeq(Head(sorted), e) THEN <<Head(sorted)>> \o Insert(e, Tail(sorted))
    ELSE <<e>> \o sorted

RECURSIVE sorted(_)
sorted(entries) ==
    IF entries = <<>> THEN <<>>
    ELSE Insert(entries[Len(entries)], sorted(SubSeq(entries, 1, Len(entries) - 1)))

-----------------------------------------------------------------------------
(* main.                                                                   *)

HeaderLine ==
    <<"#"," ","h","t","t","p","s",":","/","/","g","i","t","h","u","b",".",
      "c","o","m","/","r","u","s","t","-","l","a","n","g","-","n","u","r",
      "s","e","r","y","/","m","d","B","o","o","k","/","i","s","s","u","e",
      "s","/","6","7","7">>

\* the seeded entry of the root
RootEntry == SummaryEntry(<<README_md>>, README)

\* base_path.join("SUMMARY.md")
SummaryPath == Append(base_path, SUMMARY_md)

\* the lines SUMMARY.md holds
SummaryLines == IF SummaryPath \in DOMAIN files THEN files[SummaryPath].lines ELSE <<>>

\* the iterator without sorted()
EntryLines_Unsorted(entries) == entries

\* the iterator main writes from: sum_entries.into_iter().sorted()
EntryLines(entries) == sorted(entries)

RECURSIVE RenderAll(_)
RenderAll(entries) ==
    IF entries = <<>> THEN <<>>
    ELSE <<summary_line(Head(entries))>> \o RenderAll(Tail(entries))

\* the lines main writes to SUMMARY.md, in the order of the write_line calls
SummaryContents(entries) == <<HeaderLine>> \o RenderAll(EntryLines(entries))

\* main, create_readmes: seeds the root entry and starts the walk
StartTree ==
    /\ pc = "start"
    /\ create_readmes
    /\ sum_entries' = <<RootEntry>>
    /\ todo' = GlobDirs(base_path, dirs)
    /\ pc' = IF todo' = {} THEN "write" ELSE "walk"
    /\ UNCHANGED <<files, dirs, base_path, trim_str, title_from_name,
                   create_readmes, run, outputs, arg, ret>>

\* main, create_readmes: one iteration of the loop over the directories
HandleDir ==
    /\ pc = "walk"
    /\ \E path \in todo : \E order \in Enumerations(GlobMd(path, files)) :
         LET r == handle_dir(path, base_path, trim_str, title_from_name,
                             sum_entries, files, order)
         IN  /\ todo' = todo \ {path}
             /\ IF r = Abort
                THEN pc' = "aborted" /\ UNCHANGED sum_entries
                ELSE /\ sum_entries' = r.value
                     /\ pc' = IF todo' = {} THEN "write" ELSE "walk"
    /\ UNCHANGED <<files, dirs, base_path, trim_str, title_from_name,
                   create_readmes, run, outputs, arg, ret>>

\* main, otherwise: every document under base_path, through find_content
CollectFlat ==
    /\ pc = "start"
    /\ ~create_readmes
    /\ \E order \in Enumerations(GlobAllMd(base_path, files)) :
         LET rs == FindAll(order, base_path, trim_str, title_from_name, files)
         IN  IF Aborts(rs)
             THEN pc' = "aborted" /\ UNCHANGED sum_entries
             ELSE sum_entries' = FilterSome(rs) /\ pc' = "write"
    /\ UNCHANGED <<files, dirs, base_path, trim_str, title_from_name,
                   create_readmes, run, todo, outputs, arg, ret>>

\* main: File::create truncates SUMMARY.md, then the header and the sorted
\* entry lines are written to it
WriteSummary ==
    /\ pc = "write"
    /\ files' = [p \in DOMAIN files \cup {SummaryPath} |->
                    IF p = SummaryPath
                    THEN Document(SummaryContents(sum_entries))
                    ELSE files[p]]
    /\ pc' = "done"
    /\ UNCHANGED <<dirs, base_path, trim_str, title_from_name, create_readmes,
                   run, todo, sum_entries, outputs, arg, ret>>

\* the program is run again, with the same configuration, on the tree the
\* first run left
RunAgain ==
    /\ pc = "done"
    /\ run = "first"
    /\ run' = "second"
    /\ outputs' = Append(outputs, SummaryLines)
    /\ sum_entries' = <<>>
    /\ pc' = "start"
    /\ UNCHANGED <<files, dirs, base_path, trim_str, title_from_name,
                   create_readmes, todo, arg, ret>>

\* the sub-directories a tree can hold, relative to base_path
SubDirs == { <<guide>>, <<src>>, <<guide, src>> }

\* the documents a directory can hold
DocNames == { README_md, page_md }

Intro == <<"I","n","t","r","o">>
Page == <<"P","a","g","e">>

\* what a document can hold: a title line (after blank lines, and followed by
\* a second marker line), no marker line at all, or nothing readable
TitledDoc(name) ==
    IF name = README_md
    THEN Document(<< <<"#"," ">> \o Intro >>)
    ELSE Document(<< <<>>, <<" ">> \o <<"#"," ">> \o Page, <<"#"," ">> \o Intro >>)

UntitledDoc == Document(<< <<"t","e","x","t">> >>)

DocChoices(p) == { TitledDoc(FileName(p)), UntitledDoc, Unreadable }

InitMain ==
    /\ base_path = <<src>>
    /\ trim_str = <<"#"," ">>
    /\ title_from_name \in BOOLEAN
    /\ create_readmes \in BOOLEAN
    /\ \E subs \in SUBSET SubDirs :
         /\ Cardinality(subs) <= MaxDirs
         /\ \A d \in subs : Len(d) > 1 => Parent(d) \in subs
         /\ dirs = { base_path \o d : d \in subs \cup { <<>> } }
    /\ \E slots \in SUBSET { Append(d, n) : d \in dirs, n \in DocNames } :
         /\ Cardinality(slots) <= MaxDocs
         /\ files \in { f \in [slots -> UNION { DocChoices(p) : p \in slots }] :
                          \A p \in slots : f[p] \in DocChoices(p) }
    /\ pc = "start"
    /\ run = "first"
    /\ todo = {}
    /\ sum_entries = <<>>
    /\ outputs = <<>>
    /\ arg = <<>>
    /\ ret = None

Next ==
    \/ StartTree
    \/ HandleDir
    \/ CollectFlat
    \/ WriteSummary
    \/ RunAgain

Spec == InitMain /\ [][Next]_vars

-----------------------------------------------------------------------------
(* Properties of main.                                                     *)

Range(f) == { f[i] : i \in DOMAIN f }

\* the path of a directory or document below base_path
Rel(p) == Drop(p, Len(base_path))

\* the entries of sum_entries with a given path
EntriesAt(path) == { i \in 1..Len(sum_entries) : sum_entries[i].path = path }

\* C1: with create_readmes, the collected entries hold exactly one entry
\* <dir>/README.md for every directory of the tree, the root included.
C1_OneIndexEntryPerDir ==
    (create_readmes /\ pc = "done")
    => \A d \in dirs : Cardinality(EntriesAt(Append(Rel(d), README_md))) = 1

\* C2: a second run with the same configuration, on the tree the first run
\* left, writes the same SUMMARY.md as the first.
C2_SecondRunSameOutput ==
    (run = "second" /\ pc = "done") => SummaryLines = outputs[1]

\* the documents main passes to find_content
Scanned(fsys) ==
    IF create_readmes
    THEN UNION { GlobMd(d, fsys) : d \in GlobDirs(base_path, dirs) }
    ELSE GlobAllMd(base_path, fsys)

\* a document that cannot be opened, or without a line whose trimmed form
\* starts with the marker
Untitled(doc) ==
    \/ ~doc.readable
    \/ \A i \in 1..Len(doc.lines) : ~starts_with(trim(doc.lines[i]), trim_str)

Without(fsys, p) == [q \in DOMAIN fsys \ {p} |-> fsys[q]]

\* the entries the scanned documents of a tree give
DocEntries(fsys) ==
    { find_content(q, base_path, trim_str, title_from_name, fsys).value :
        q \in { r \in Scanned(fsys) :
                  find_content(r, base_path, trim_str, title_from_name, fsys).tag
                      = "Some" } }

\* C5: in content-derived mode a document that cannot be opened, or has no
\* marker line, gives no entry and no abort: the entries collected for the
\* documents are those of the tree without it, the run reaches its end and
\* SUMMARY.md is written.
C5_UntitledDocumentSkipped ==
    ~title_from_name
    => /\ pc # "aborted"
       /\ pc \in {"write", "done"} =>
            \A p \in Scanned(files) \ {SummaryPath} :
                Untitled(files[p]) =>
                    /\ EntriesAt(Rel(p)) = {}
                    /\ { e \in Range(sum_entries) :
                           base_path \o e.path \in Scanned(files) \ {SummaryPath} }
                       = { e \in DocEntries(Without(files, p)) :
                             base_path \o e.path # SummaryPath }
       /\ pc = "done" =>
            /\ SummaryPath \in DOMAIN files
            /\ SummaryLines[1] = HeaderLine
            /\ Len(SummaryLines) = 1 + Len(sum_entries)

\* a run ended with a document that cannot be opened skipped and another
\* document listed
C5_Witness ==
    /\ pc = "done"
    /\ ~title_from_name
    /\ \E p, r \in Scanned(files) \ {SummaryPath} :
         /\ ~files[p].readable
         /\ EntriesAt(Rel(p)) = {}
         /\ EntriesAt(Rel(r)) # {}

\* the tree of the end-to-end scenario: README.md and guide/page.md
ScenarioFiles ==
    [p \in { <<src, README_md>>, <<src, guide, page_md>> } |->
        TitledDoc(FileName(p))]

\* C6: with create_readmes, content-derived titles and marker "# ", the tree
\* of README.md ("# Intro") and guide/page.md ("# Page") gives exactly three
\* entry lines after the header: README.md "README", guide/README.md "guide",
\* guide/page.md "Page".
C6_ScenarioThreeLines ==
    (/\ pc = "done"
     /\ create_readmes
     /\ ~title_from_name
     /\ trim_str = <<"#"," ">>
     /\ dirs = { <<src>>, <<src, guide>> }
     /\ Without(files, SummaryPath) = ScenarioFiles)
    => Tail(SummaryLines)
         = << summary_line(SummaryEntry(<<README_md>>, README)),
              summary_line(SummaryEntry(<<guide, README_md>>, guide)),
              summary_line(SummaryEntry(<<guide, page_md>>, Page)) >>

C6_Witness ==
    /\ pc = "done"
    /\ create_readmes
    /\ ~title_from_name
    /\ dirs = { <<src>>, <<src, guide>> }
    /\ Without(files, SummaryPath) = ScenarioFiles
    /\ Len(SummaryLines) = Len(sum_entries) + 1
    /\ Len(sum_entries) = Cardinality({ README_md, guide, page_md })

\* C7: one call of handle_dir on a directory appends, besides one entry per
\* document of the directory that find_content gives an entry for, exactly one
\* more entry, whose path ends in README.md, when the directory holds no
\* README.md, and none when it holds one, whether or not that README.md
\* gives a title.
C7_SynthesizedIffNoReadme ==
    [][ (pc = "walk" /\ pc' # "aborted") =>
          \A path \in todo \ todo' :
              LET appended == SubSeq(sum_entries', Len(sum_entries) + 1,
                                     Len(sum_entries'))
                  found == { q \in DOMAIN files :
                               /\ Parent(q) = path
                               /\ find_content(q, base_path, trim_str,
                                               title_from_name, files).tag = "Some" }
                  extra == { i \in 1..Len(appended) :
                               base_path \o appended[i].path \notin found }
              IN  /\ SubSeq(sum_entries', 1, Len(sum_entries)) = sum_entries
                  /\ Len(appended) = Cardinality(found) + Cardinality(extra)
                  /\ IF Append(path, README_md) \in DOMAIN files
                     THEN extra = {}
                     ELSE /\ Cardinality(extra) = 1
                          /\ \A i \in extra :
                               FileName(appended[i].path) = README_md ]_vars

\* the walk handled a directory without README.md and one whose README.md
\* gives no title
C7_Witness ==
    /\ pc = "write"
    /\ create_readmes
    /\ ~title_from_name
    /\ \E d, e \in GlobDirs(base_path, dirs) :
         /\ Append(d, README_md) \notin DOMAIN files
         /\ EntriesAt(Append(Rel(d), README_md)) # {}
         /\ Append(e, README_md) \in DOMAIN files
         /\ Untitled(files[Append(e, README_md)])
         /\ EntriesAt(Append(Rel(e), README_md)) = {}

\* C10: the header is the first line of SUMMARY.md, followed by exactly one
\* line per collected entry, in non-decreasing order of path (component by
\* component), in whatever order the entries were collected.
C10_HeaderThenSortedLines ==
    pc = "done"
    => LET L == SummaryLines
       IN  /\ L # <<>>
           /\ L[1] = HeaderLine
           /\ Len(L) = 1 + Len(sum_entries)
           /\ \A e \in Range(sum_entries) :
                Cardinality({ i \in 1..Len(sum_entries) : sum_entries[i] = e })
                  = Cardinality({ k \in 2..Len(L) : L[k] = summary_line(e) })
           /\ \A k \in 2..(Len(L) - 1) :
                \E a, b \in Range(sum_entries) :
                    /\ L[k] = summary_line(a)
                    /\ L[k + 1] = summary_line(b)
                    /\ PathLeq(a.path, b.path)

\* a run ended whose entries were collected in an order that is not sorted
C10_Witness ==
    /\ pc = "done"
    /\ Len(sum_entries) >= 3
    /\ \E i \in 1..(Len(sum_entries) - 1) :
         ~PathLeq(sum_entries[i].path, sum_entries[i + 1].path)
    /\ Len(SummaryLines) = 1 + Len(sum_entries)

====
